---- MODULE Spec2Model ----
(***************************************************************************)
(* A model of backend/main.py of gamechanger-stats-ui: the statistics      *)
(* aggregation behind GET /api/stats/{organization_id}, with the pure      *)
(* functions it is built from (format_stat, format_innings_pitched,        *)
(* calculate_scorer_strictness, normalize_stat).                           *)
(*                                                                         *)
(* Numbers.  A Python number is a record: PyInt(n) is the int n and        *)
(* PyFloat(a, b) the float a/b, kept as an exact fraction.  A formatted    *)
(* string is a record as well: StrInt(n) is str(n) ("0"), StrFixed(dp, n)  *)
(* is the fixed-point text of n / 10^dp ("0.311" is StrFixed(3, 311)), so  *)
(* "0" and "0.000" are different strings.  Strictness scores, which the    *)
(* code rounds to three decimals, are integers in thousandths.             *)
(* Where a float lies exactly half way between two decimals the model      *)
(* rounds half to even on the exact fraction; the input sets avoid such    *)
(* ties except for fractions a binary float holds exactly.                 *)
(***************************************************************************)
EXTENDS Integers, Sequences, FiniteSets, TLC

VARIABLES
    gc_client,          \* the module-level client: "none" or "client"
    pc,                 \* position of the request being served
    teams_data,         \* the organization's teams, as fetched
    idx,                \* index of the next team of the loop over teams_data
    batting_stats,      \* the three player collections, in order of insertion
    pitching_stats,
    fielding_stats,
    team_stats,
    team_info_map,      \* team id -> [name, avatar]
    raw_offense_stats,  \* team id -> player id -> offense counters
    response,           \* the HTTP result of the request, or NoResponse
    calls,              \* history: the outcome of each collaborator call
    arg,                \* the argument of a pure function under check, or
                        \* the last HTTP request of the cached endpoints
    ret,                \* its result
    cache_store,        \* cache key -> [data, timestamp]
    now,                \* time.time(), in seconds
    origin,             \* history: cache key -> the client that computed it
    computed_by         \* history: the client that computed the response

vars == <<gc_client, pc, teams_data, idx, batting_stats, pitching_stats,
          fielding_stats, team_stats, team_info_map, raw_offense_stats,
          response, calls, arg, ret, cache_store, now, origin, computed_by>>

\* the cache of main.py 24, the clock it reads and their history
cacheVars == <<cache_store, now, origin, computed_by>>

handlerVars == <<gc_client, pc, teams_data, idx, batting_stats, pitching_stats,
                 fielding_stats, team_stats, team_info_map, raw_offense_stats,
                 response, calls>>

----------------------------------------------------------------------------
(* Arithmetic helpers *)

Abs(x) == IF x < 0 THEN -x ELSE x

Min(a, b) == IF a < b THEN a ELSE b

Max(a, b) == IF a > b THEN a ELSE b

RECURSIVE GCD(_, _)
GCD(a, b) == IF b = 0 THEN a ELSE GCD(b, a % b)

LCM(a, b) == (a \div GCD(a, b)) * b

RECURSIVE Pow10(_)
Pow10(k) == IF k = 0 THEN 1 ELSE 10 * Pow10(k - 1)

RECURSIVE SumOver(_, _)
\* the sum of f[x] over the finite set S
SumOver(S, f) ==
    IF S = {} THEN 0
    ELSE LET x == CHOOSE y \in S : TRUE IN f[x] + SumOver(S \ {x}, f)

RECURSIVE LCMOver(_, _)
LCMOver(S, f) ==
    IF S = {} THEN 1
    ELSE LET x == CHOOSE y \in S : TRUE IN LCM(f[x], LCMOver(S \ {x}, f))

RECURSIVE GCDOver(_, _)
GCDOver(S, f) ==
    IF S = {} THEN 0
    ELSE LET x == CHOOSE y \in S : TRUE IN GCD(Abs(f[x]), GCDOver(S \ {x}, f))

\* a / b (b > 0, a >= 0) rounded to the nearest integer, halves to even
RoundHalfEven(a, b) ==
    LET q == a \div b
        r == a % b
    IN  IF 2 * r < b THEN q
        ELSE IF 2 * r > b THEN q + 1
        ELSE IF q % 2 = 0 THEN q ELSE q + 1

RECURSIVE ScaledDiv(_, _, _)
\* floor(10^k * r / s) for 0 <= r < s, by long division
ScaledDiv(r, s, k) ==
    IF k = 0 THEN 0
    ELSE ((10 * r) \div s) * Pow10(k - 1) + ScaledDiv((10 * r) % s, s, k - 1)

RECURSIVE ISqrtIn(_, _, _)
\* the largest s in lo..hi with s * s <= q, by bisection
ISqrtIn(q, lo, hi) ==
    IF lo = hi THEN lo
    ELSE LET mid == (lo + hi + 1) \div 2
         IN  IF mid * mid <= q THEN ISqrtIn(q, mid, hi) ELSE ISqrtIn(q, lo, mid - 1)

----------------------------------------------------------------------------
(* Python numbers and formatted strings *)

PyInt(n) == [t |-> "int", num |-> n, den |-> 1]

PyFloat(a, b) == LET g == GCD(Abs(a), b) IN [t |-> "float", num |-> a \div g, den |-> b \div g]

NoneValue == [t |-> "none", num |-> 0, den |-> 1]

StrInt(n) == [t |-> "str", dp |-> 0, n |-> n]

StrFixed(dp, n) == [t |-> "fixed", dp |-> dp, n |-> n]

\* x == 0, x > 0, x < y on Python numbers
IsZero(x) == x.num = 0

Less(x, y) == x.num * y.den < y.num * x.den

\* what a division by zero leaves in place of a number
ZeroDivisionError == [t |-> "ZeroDivisionError", num |-> 0, den |-> 1]

\* a / b, Python's true division of two ints
TrueDiv(a, b) == IF b = 0 THEN ZeroDivisionError ELSE PyFloat(a, b)

\* format_stat, main.py 230-236
format_stat(value, decimal_places) ==
    IF value.t = "none" THEN StrInt(0)
    ELSE IF value.t = "ZeroDivisionError" THEN [t |-> value.t, dp |-> 0, n |-> 0]
    ELSE IF value.t = "float"
         THEN IF Pow10(decimal_places) % value.den = 0
              THEN StrFixed(decimal_places,
                            value.num * (Pow10(decimal_places) \div value.den))
              ELSE IF value.den % Pow10(decimal_places) = 0
              THEN StrFixed(decimal_places,
                            RoundHalfEven(value.num, value.den \div Pow10(decimal_places)))
              ELSE StrFixed(decimal_places,
                            RoundHalfEven(value.num * Pow10(decimal_places), value.den))
         ELSE StrInt(value.num)

\* float(s) of a formatted string, main.py 616-617, 631
ParseFloat(s) == PyFloat(s.n, Pow10(s.dp))

\* format_innings_pitched, main.py 239-245.  The result "w.o" is the record
\* [whole |-> w, outs |-> o]; round() is Python's, halves to even.
format_innings_pitched(ip) ==
    LET whole_innings == ip.num \div ip.den
        frac_num      == ip.num - whole_innings * ip.den
        outs          == RoundHalfEven(3 * frac_num, ip.den)
    IN  [whole |-> whole_innings, outs |-> outs]

----------------------------------------------------------------------------
(* Text: a string is a sequence of one-character strings *)

UpperCase == <<"A","B","C","D","E","F","G","H","I","J","K","L","M",
               "N","O","P","Q","R","S","T","U","V","W","X","Y","Z">>

LowerCase == <<"a","b","c","d","e","f","g","h","i","j","k","l","m",
               "n","o","p","q","r","s","t","u","v","w","x","y","z">>

\* str.lower() on one character
LowerChar(c) ==
    IF \E i \in DOMAIN UpperCase : UpperCase[i] = c
    THEN LowerCase[CHOOSE i \in DOMAIN UpperCase : UpperCase[i] = c]
    ELSE c

Lower(s) == [i \in DOMAIN s |-> LowerChar(s[i])]

RECURSIVE LStrip(_)
LStrip(s) == IF s # <<>> /\ Head(s) = " " THEN LStrip(Tail(s)) ELSE s

RECURSIVE RStrip(_)
RStrip(s) ==
    IF s # <<>> /\ s[Len(s)] = " " THEN RStrip(SubSeq(s, 1, Len(s) - 1)) ELSE s

\* str.strip()
Strip(s) == RStrip(LStrip(s))

\* sub in s
Contains(s, sub) ==
    \E i \in 0..(Len(s) - Len(sub)) : SubSeq(s, i + 1, i + Len(sub)) = sub

UnknownText == <<"u","n","k","n","o","w","n">>

----------------------------------------------------------------------------
(* normalize_stat, main.py 341-368.  original_value is a Python number,   *)
(* strictness is in thousandths and normalization_factor in tenths, so    *)
(* 1 + strictness * factor * 0.1 is (100000 + s * f) / 100000.            *)

DefaultFactor == 5

normalize_stat_double(original_value, strictness, normalization_factor) ==
    IF IsZero(original_value) THEN PyInt(0)
    ELSE LET normalized == PyFloat(original_value.num * (100000 + 2 * strictness * normalization_factor),
                                   original_value.den * 100000)
             capped     == IF Less(PyInt(1), normalized) THEN PyFloat(1, 1) ELSE normalized
         IN  IF Less(PyInt(0), capped) THEN capped ELSE PyInt(0)

normalize_stat_inverted(original_value, strictness, normalization_factor) ==
    IF IsZero(original_value) THEN PyInt(0)
    ELSE LET normalized == PyFloat(original_value.num * (100000 - strictness * normalization_factor),
                                   original_value.den * 100000)
             capped     == IF Less(PyInt(1), normalized) THEN PyFloat(1, 1) ELSE normalized
         IN  IF Less(PyInt(0), capped) THEN capped ELSE PyInt(0)

normalize_stat(original_value, strictness, normalization_factor) ==
    IF IsZero(original_value) THEN PyInt(0)
    ELSE LET normalized == PyFloat(original_value.num * (100000 + strictness * normalization_factor),
                                   original_value.den * 100000)
             \* min(1.0, normalized), then max(0, ...)
             capped     == IF Less(PyInt(1), normalized) THEN PyFloat(1, 1) ELSE normalized
         IN  IF Less(PyInt(0), capped) THEN capped ELSE PyInt(0)

----------------------------------------------------------------------------
(* calculate_scorer_strictness, main.py 248-338 *)

MinPlateAppearances == 50

MinChances == 50

EmptyIndex == [t \in {} |-> 0]

\* main.py 270-285: per team the sums of ROE, FC and PA over its players; a
\* team with no player entry gets no entry (the defaultdict is never touched)
TeamOffense(raw) ==
    [t \in {u \in DOMAIN raw : DOMAIN raw[u] # {}} |->
        LET ps == DOMAIN raw[t]
        IN  [roe |-> SumOver(ps, [p \in ps |-> raw[t][p].ROE]),
             fc  |-> SumOver(ps, [p \in ps |-> raw[t][p].FC]),
             pa  |-> SumOver(ps, [p \in ps |-> raw[t][p].AB + raw[t][p].BB
                                               + raw[t][p].HBP + raw[t][p].SF])]]

\* main.py 287-293: per team the sums of errors and chances over its
\* fielding records
TeamDefense(fielding) ==
    [t \in {fielding[i].team_id : i \in DOMAIN fielding} |->
        LET is == {i \in DOMAIN fielding : fielding[i].team_id = t}
        IN  [errors  |-> SumOver(is, [i \in is |-> fielding[i].errors]),
             chances |-> SumOver(is, [i \in is |-> fielding[i].putouts
                                       + fielding[i].assists + fielding[i].errors])]]

\* |z| in thousandths, rounded to the nearest, for z * z = n / s < 1
RoundedRoot(n, s) ==
    LET q == ((4 * n) \div s) * 1000000 + ScaledDiv((4 * n) % s, s, 6)
    IN  (ISqrtIn(q, 0, 2000) + 1) \div 2

\* main.py 308-316 and 328-336: mean, sample standard deviation (0.01 when
\* it is zero), z-score clamped to [-1, 1] and rounded to three decimals.
\* rates maps each qualifying team to its rate num/den.  With L the common
\* denominator and d[t] = n * rate[t] * L - sum of rate * L, the z-score of
\* t is d[t] * sqrt(n - 1) / sqrt(sum of d * d): exact, whatever L is.
ZScores_unclamped(rates) ==
    LET ts     == DOMAIN rates
        n      == Cardinality(ts)
        L      == LCMOver(ts, [t \in ts |-> rates[t].den])
        scaled == [t \in ts |-> rates[t].num * (L \div rates[t].den)]
        total  == SumOver(ts, scaled)
        dev    == [t \in ts |-> n * scaled[t] - total]
        g      == GCDOver(ts, dev)
        d      == [t \in ts |-> IF g = 0 THEN 0 ELSE dev[t] \div g]
        ss     == SumOver(ts, [t \in ts |-> d[t] * d[t]])
    IN  [t \in ts |->
            IF ss = 0 THEN (100000 * dev[t]) \div (n * L)
            ELSE LET sq  == (n - 1) * d[t] * d[t]
                     q   == ((4 * sq) \div ss) * 1000000 + ScaledDiv((4 * sq) % ss, ss, 6)
                     mag == (ISqrtIn(q, 0, 8000) + 1) \div 2
                 IN  IF d[t] < 0 THEN -mag ELSE mag]

ZScores_magnitude(rates) ==
    LET ts     == DOMAIN rates
        n      == Cardinality(ts)
        L      == LCMOver(ts, [t \in ts |-> rates[t].den])
        scaled == [t \in ts |-> rates[t].num * (L \div rates[t].den)]
        total  == SumOver(ts, scaled)
        dev    == [t \in ts |-> n * scaled[t] - total]
        g      == GCDOver(ts, dev)
        d      == [t \in ts |-> IF g = 0 THEN 0 ELSE dev[t] \div g]
        ss     == SumOver(ts, [t \in ts |-> d[t] * d[t]])
    IN  [t \in ts |->
            IF ss = 0 THEN 0
            ELSE LET sq == (n - 1) * d[t] * d[t]
                 IN  IF sq >= ss THEN 1000 ELSE RoundedRoot(sq, ss)]

ZScores(rates) ==
    LET ts     == DOMAIN rates
        n      == Cardinality(ts)
        L      == LCMOver(ts, [t \in ts |-> rates[t].den])
        scaled == [t \in ts |-> rates[t].num * (L \div rates[t].den)]
        total  == SumOver(ts, scaled)
        dev    == [t \in ts |-> n * scaled[t] - total]
        g      == GCDOver(ts, dev)
        d      == [t \in ts |-> IF g = 0 THEN 0 ELSE dev[t] \div g]
        ss     == SumOver(ts, [t \in ts |-> d[t] * d[t]])
    IN  [t \in ts |->
            IF ss = 0
            THEN \* stdev is 0.0, replaced by 0.01: z = (rate - mean) / 0.01
                 LET z == (100000 * dev[t]) \div (n * L)
                 IN  Max(-1000, Min(1000, z))
            ELSE LET sq  == (n - 1) * d[t] * d[t]
                     mag == IF sq >= ss THEN 1000 ELSE RoundedRoot(sq, ss)
                 IN  IF d[t] < 0 THEN -mag ELSE mag]

\* main.py 296-316
OffensiveStrictness_one_team(raw) ==
    LET team_offense == TeamOffense(raw)
        team_off_rates ==
            [t \in {u \in DOMAIN team_offense :
                       team_offense[u].pa >= MinPlateAppearances} |->
                [num |-> team_offense[t].roe + team_offense[t].fc,
                 den |-> team_offense[t].pa]]
    IN  IF Cardinality(DOMAIN team_off_rates) >= 1
        THEN ZScores(team_off_rates) ELSE EmptyIndex

OffensiveStrictness(raw) ==
    LET team_offense == TeamOffense(raw)
    IN  IF Cardinality(DOMAIN team_offense) >= 2
        THEN LET team_off_rates ==
                     [t \in {u \in DOMAIN team_offense :
                                team_offense[u].pa >= MinPlateAppearances} |->
                         [num |-> team_offense[t].roe + team_offense[t].fc,
                          den |-> team_offense[t].pa]]
             IN  IF Cardinality(DOMAIN team_off_rates) >= 2
                 THEN ZScores(team_off_rates) ELSE EmptyIndex
        ELSE EmptyIndex

\* main.py 318-336
DefensiveStrictness(fielding) ==
    LET team_defense == TeamDefense(fielding)
    IN  IF Cardinality(DOMAIN team_defense) >= 2
        THEN LET team_def_rates ==
                     [t \in {u \in DOMAIN team_defense :
                                team_defense[u].chances >= MinChances} |->
                         [num |-> team_defense[t].errors,
                          den |-> team_defense[t].chances]]
             IN  IF Cardinality(DOMAIN team_def_rates) >= 2
                 THEN ZScores(team_def_rates) ELSE EmptyIndex
        ELSE EmptyIndex

calculate_scorer_strictness(all_batting_stats, all_fielding_stats, raw) ==
    [offensive |-> OffensiveStrictness(raw),
     defensive |-> DefensiveStrictness(all_fielding_stats)]

\* dict.get(team_id, 0) on a strictness index, main.py 612, 627, 637
StrictnessOf(index, team_id) == IF team_id \in DOMAIN index THEN index[team_id] ELSE 0

----------------------------------------------------------------------------
(* The collaborator (gamechanger_client): what a call can answer *)

NoBody == [type |-> "none", missing_authentication |-> FALSE, message |-> <<>>,
           content |-> <<>>]

\* the call returns a JSON list
ListBody(items) == [type |-> "list", missing_authentication |-> FALSE,
                    message |-> <<>>, content |-> items]

\* the call returns a JSON object
DictBody(flag, message, content) ==
    [type |-> "dict", missing_authentication |-> flag, message |-> message,
     content |-> content]

Returned(body) == [raised |-> "none", status_code |-> 0, body |-> body]

\* the client raises ApiError with this status
ApiError(status) == [raised |-> "ApiError", status_code |-> status, body |-> NoBody]

\* the client raises anything else (a connection failure, say)
OtherError == [raised |-> "Exception", status_code |-> 0, body |-> NoBody]

MarkerText == <<"m","i","s","s","i","n","g"," ","u","s","e","r"," ",
                "a","u","t","h","e","n","t","i","c","a","t","i","o","n">>

MarkerMessage == <<"M","i","s","s","i","n","g"," ","U","s","e","r"," ",
                   "A","u","t","h","e","n","t","i","c","a","t","i","o","n">>

\* check_auth_error, main.py 61-65: TRUE when it raises AuthenticationError
check_auth_error(response_data) ==
    /\ response_data.type = "dict"
    /\ \/ response_data.missing_authentication
       \/ Contains(Lower(response_data.message), MarkerText)

\* payloads that signal missing authentication
AuthFlagBody == DictBody(TRUE, <<>>, <<>>)

AuthMessageBody == DictBody(FALSE, MarkerMessage, <<>>)

\* a call signalled an authentication failure: ApiError 401 or the marker
IsAuthFailure(outcome) ==
    \/ outcome.raised = "ApiError" /\ outcome.status_code = 401
    \/ outcome.raised = "none" /\ check_auth_error(outcome.body)

\* a call failed, and not for authentication
IsOtherFailure(outcome) == outcome.raised # "none" /\ ~IsAuthFailure(outcome)

----------------------------------------------------------------------------
(* Season statistics as the collaborator returns them.  Of the counters    *)
(* only those a derived value is computed from are kept; the fields that   *)
(* are copied through unchanged (GP, RBI, SO, R, DP, S%, the player's      *)
(* number) are left out.  present = FALSE is the empty dict.               *)

Offense(ab, h, bb, hbp, sf, b1, b2, b3, hr, roe, fc) ==
    [present |-> TRUE, AB |-> ab, H |-> h, BB |-> bb, HBP |-> hbp, SF |-> sf,
     B1 |-> b1, B2 |-> b2, B3 |-> b3, HR |-> hr, ROE |-> roe, FC |-> fc]

NoOffense == [Offense(0, 0, 0, 0, 0, 0, 0, 0, 0, 0, 0) EXCEPT !.present = FALSE]

Defense(ip, er, h, bb, po, a, e) ==
    [present |-> TRUE, IP |-> ip, ER |-> er, H |-> h, BB |-> bb,
     PO |-> po, A |-> a, E |-> e]

NoDefense == [Defense(PyInt(0), 0, 0, 0, 0, 0, 0) EXCEPT !.present = FALSE]

Player(id, offense, defense) == [id |-> id, offense |-> offense, defense |-> defense]

RosterEntry(id, first, last) == [id |-> id, first_name |-> first, last_name |-> last]

----------------------------------------------------------------------------
(* The per-player derivations of get_all_stats *)

\* main.py 446-452: the roster entry of the player ({} when absent) and the
\* resolved name
PlayerName(players, player_id) ==
    LET known == {i \in DOMAIN players : players[i].id = player_id}
        \* the dict comprehension keeps the last entry of an id
        first == IF known = {} THEN <<>>
                 ELSE players[CHOOSE i \in known : \A j \in known : j <= i].first_name
        last  == IF known = {} THEN <<>>
                 ELSE players[CHOOSE i \in known : \A j \in known : j <= i].last_name
    IN  Strip(first \o <<" ">> \o last)

\* main.py 451
SkipPlayer_exact(player_name) == player_name = <<>> \/ player_name = UnknownText

SkipPlayer(player_name) ==
    player_name = <<>> \/ Contains(Lower(player_name), UnknownText)

\* main.py 460-497
ZeroRate_float == PyFloat(0, 1)

ZeroRate == PyInt(0)

BattingLine(player_name, player_id, team, o) ==
    LET ab  == o.AB
        h   == o.H
        avg == IF ab > 0 THEN TrueDiv(h, ab) ELSE ZeroRate
        pa  == ab + o.BB + o.HBP + o.SF
        obp == IF pa > 0 THEN TrueDiv(h + o.BB + o.HBP, pa) ELSE ZeroRate
        total_bases == o.B1 + (o.B2 * 2) + (o.B3 * 3) + (o.HR * 4)
        slg == IF ab > 0 THEN TrueDiv(total_bases, ab) ELSE ZeroRate
    IN  [player_name |-> player_name, player_id |-> player_id,
         team_name |-> team.name, team_id |-> team.root_team_id,
         team_avatar |-> team.avatar,
         at_bats |-> ab, plate_appearances |-> pa, hits |-> h,
         doubles |-> o.B2, triples |-> o.B3, home_runs |-> o.HR, walks |-> o.BB,
         batting_avg |-> format_stat(avg, 3),
         on_base_pct |-> format_stat(obp, 3),
         slugging_pct |-> format_stat(slg, 3)]

\* main.py 502-531
PitchingLine(player_name, player_id, team, d) ==
    LET ip   == d.IP
        er   == d.ER
        era  == IF Less(PyInt(0), ip) THEN PyFloat(er * 7 * ip.den, ip.num) ELSE ZeroRate
        whip == IF Less(PyInt(0), ip) THEN PyFloat((d.H + d.BB) * ip.den, ip.num)
                ELSE ZeroRate
    IN  [player_name |-> player_name, player_id |-> player_id,
         team_name |-> team.name, team_id |-> team.root_team_id,
         team_avatar |-> team.avatar,
         innings_pitched |-> format_innings_pitched(ip),
         hits_allowed |-> d.H, earned_runs |-> er, walks |-> d.BB,
         era |-> format_stat(era, 2), whip |-> format_stat(whip, 2),
         wins |-> 0, losses |-> 0]

\* main.py 534-555
FieldingLine(player_name, player_id, team, d) ==
    LET po      == d.PO
        a       == d.A
        e       == d.E
        chances == po + a + e
        fpct    == IF chances > 0 THEN TrueDiv(po + a, chances) ELSE ZeroRate
    IN  [player_name |-> player_name, player_id |-> player_id,
         team_name |-> team.name, team_id |-> team.root_team_id,
         team_avatar |-> team.avatar,
         fielding_opportunities |-> po + a,
         putouts |-> po, assists |-> a, errors |-> e,
         fielding_pct |-> format_stat(fpct, 3)]

\* The accumulators of the loop over teams
Acc(batting, pitching, fielding, raw) ==
    [batting |-> batting, pitching |-> pitching, fielding |-> fielding, raw |-> raw]

RECURSIVE PlayerLoop(_, _, _, _)
\* main.py 446-555: the loop over the players of one team's season stats
PlayerLoop(players_data, players, team, acc) ==
    IF players_data = <<>> THEN acc
    ELSE LET p    == Head(players_data)
             name == PlayerName(players, p.id)
             tid  == team.root_team_id
             next ==
                 IF SkipPlayer(name) THEN acc
                 ELSE [batting  |-> IF p.offense.present
                                    THEN Append(acc.batting,
                                                BattingLine(name, p.id, team, p.offense))
                                    ELSE acc.batting,
                       raw      |-> IF p.offense.present
                                    THEN [acc.raw EXCEPT ![tid] =
                                             (p.id :> p.offense) @@ acc.raw[tid]]
                                    ELSE acc.raw,
                       pitching |-> IF p.defense.present
                                    THEN Append(acc.pitching,
                                                PitchingLine(name, p.id, team, p.defense))
                                    ELSE acc.pitching,
                       fielding |-> IF p.defense.present
                                    THEN Append(acc.fielding,
                                                FieldingLine(name, p.id, team, p.defense))
                                    ELSE acc.fielding]
         IN  PlayerLoop(Tail(players_data), players, team, next)

----------------------------------------------------------------------------
(* The loop body and the tail of get_all_stats, as functions of what the   *)
(* collaborator answered                                                   *)

NoId == "none"

\* main.py 431-435: the roster the loop works with
RosterPlayers(team, roster) ==
    IF team.team_public_id = NoId THEN <<>>
    ELSE IF roster.raised # "none" \/ check_auth_error(roster.body) THEN <<>>
    ELSE roster.body.content

\* main.py 425-428, 557-559: the season-stats call raised, or its payload
\* made check_auth_error raise; either way "except Exception" takes it
SeasonFailed(season) == season.raised # "none" \/ check_auth_error(season.body)

\* main.py 406-559: one iteration of the loop over teams_data
TeamBody(acc, team, season, roster) ==
    IF team.root_team_id = NoId THEN acc
    ELSE IF SeasonFailed(season) THEN acc
    ELSE PlayerLoop(season.body.content, RosterPlayers(team, roster), team,
                    [acc EXCEPT !.raw = (team.root_team_id :> <<>>) @@ acc.raw])

\* main.py 406, 412, 559: "continue" and the end of the body both go on with
\* the next team
AfterTeam_break(i, teams, failed) == IF failed THEN Len(teams) + 1 ELSE i + 1

AfterTeam(i, teams, failed) == i + 1

\* main.py 423
TeamInfo(info, team) ==
    IF team.root_team_id = NoId THEN info
    ELSE (team.root_team_id :> [name |-> team.name, avatar |-> team.avatar]) @@ info

RECURSIVE TeamStatsLoop(_, _)
\* main.py 571-600
TeamStatsLoop(records, info) ==
    IF records = <<>> THEN <<>>
    ELSE LET record == Head(records)
             rest   == TeamStatsLoop(Tail(records), info)
         IN  IF record.team_id \notin DOMAIN info THEN rest
             ELSE LET games_played == record.wins + record.losses + record.ties
                      runs_per_game ==
                          IF games_played > 0
                          THEN TrueDiv(record.scored, games_played) ELSE ZeroRate
                      runs_allowed_per_game ==
                          IF games_played > 0
                          THEN TrueDiv(record.allowed, games_played) ELSE ZeroRate
                  IN  <<[team_name |-> info[record.team_id].name,
                         team_id |-> record.team_id,
                         team_avatar |-> info[record.team_id].avatar,
                         games_played |-> games_played,
                         runs_scored |-> record.scored,
                         runs_allowed |-> record.allowed,
                         runs_per_game |-> format_stat(runs_per_game, 2),
                         runs_allowed_per_game |->
                             format_stat(runs_allowed_per_game, 2)]>> \o rest

\* main.py 562-602: the team records; any failure leaves team_stats empty
TeamStats(records, info) ==
    IF records.raised # "none" \/ check_auth_error(records.body) THEN <<>>
    ELSE IF records.body.type # "list" THEN <<>>
    ELSE TeamStatsLoop(records.body.content, info)

\* main.py 610-623
NormalizeBatting(stat, index) ==
    LET strictness   == StrictnessOf(index, stat.team_id)
        original_avg == ParseFloat(stat.batting_avg)
        original_slg == ParseFloat(stat.slugging_pct)
    IN  stat @@ [scorer_strictness |-> strictness,
                 normalized_batting_avg |->
                     format_stat(normalize_stat(original_avg, strictness, DefaultFactor), 3),
                 normalized_slugging_pct |->
                     format_stat(normalize_stat(original_slg, strictness, DefaultFactor), 3)]

\* main.py 625-633
NormalizeFielding(stat, index) ==
    LET strictness    == StrictnessOf(index, stat.team_id)
        original_fpct == ParseFloat(stat.fielding_pct)
    IN  stat @@ [scorer_strictness |-> strictness,
                 normalized_fielding_pct |->
                     format_stat(normalize_stat(original_fpct, strictness, DefaultFactor), 3)]

\* main.py 635-638
StrictnessOnly(stat, index) ==
    stat @@ [scorer_strictness |-> StrictnessOf(index, stat.team_id)]

StatsBody_one_index(acc, teams) ==
    LET s == calculate_scorer_strictness(acc.batting, acc.fielding, acc.raw)
    IN  [batting  |-> [i \in DOMAIN acc.batting |->
                          NormalizeBatting(acc.batting[i], s.offensive)],
         pitching |-> [i \in DOMAIN acc.pitching |->
                          StrictnessOnly(acc.pitching[i], s.offensive)],
         fielding |-> [i \in DOMAIN acc.fielding |->
                          NormalizeFielding(acc.fielding[i], s.defensive)],
         teams    |-> teams]

\* main.py 604-645: the body of the successful response
StatsBody(acc, teams) ==
    LET s == calculate_scorer_strictness(acc.batting, acc.fielding, acc.raw)
    IN  [batting  |-> [i \in DOMAIN acc.batting |->
                          NormalizeBatting(acc.batting[i], s.offensive)],
         pitching |-> [i \in DOMAIN acc.pitching |->
                          StrictnessOnly(acc.pitching[i], s.defensive)],
         fielding |-> [i \in DOMAIN acc.fielding |->
                          NormalizeFielding(acc.fielding[i], s.defensive)],
         teams    |-> teams]

EmptyBody == [batting |-> <<>>, pitching |-> <<>>, fielding |-> <<>>, teams |-> <<>>]

NoResponse == [status_code |-> 0, auth_error |-> FALSE, body |-> EmptyBody]

Success(body) == [status_code |-> 200, auth_error |-> FALSE, body |-> body]

\* HTTPException(status_code=401, detail={"auth_error": True, ...})
AuthErrorResult == [status_code |-> 401, auth_error |-> TRUE, body |-> EmptyBody]

\* HTTPException(status_code=..., detail=str(e))
ErrorResult(status) == [status_code |-> status, auth_error |-> FALSE, body |-> EmptyBody]

\* main.py 378-395: the result a failed organizations.teams call ends with
TeamsFailure(outcome) ==
    IF outcome.raised = "ApiError"
    THEN IF outcome.status_code = 401 THEN AuthErrorResult
         ELSE ErrorResult(outcome.status_code)
    ELSE IF outcome.raised = "none" THEN AuthErrorResult
    ELSE ErrorResult(500)

----------------------------------------------------------------------------
(* The collaborator's data: the teams of an organization, the season       *)
(* statistics and rosters it may return for a team, and the team records   *)

MaxTeams == 2

Team(id, name, public_id, avatar) ==
    [root_team_id |-> id, name |-> name, team_public_id |-> public_id,
     avatar |-> avatar]

\* a team whose avatar call answers, one whose avatar call fails, one with
\* no public id (its roster is never fetched) and one with no root_team_id
Teams == {Team("A", "Aces", "pubA", "urlA"),
          Team("B", "Bats", "pubB", "none"),
          Team("C", "Cubs", NoId, "urlC"),
          Team(NoId, "Unknown Team", "pubN", "none")}

TeamLists ==
    UNION {{l \in [1..n -> Teams] : \A i, j \in 1..n : l[i] = l[j] => i = j}
           : n \in 0..MaxTeams}

\* 100 plate appearances with ROE = 5 and FC = 5; 50 chances with 5 errors
StrictSeason ==
    <<Player("p1", Offense(20, 6, 0, 0, 0, 3, 1, 1, 1, 3, 2),
                   Defense(PyFloat(16, 3), 4, 5, 2, 30, 15, 5)),
      Player("p2", Offense(12, 0, 0, 0, 0, 0, 0, 0, 0, 2, 3), NoDefense),
      Player("p3", Offense(2, 2, 0, 0, 0, 0, 0, 0, 2, 0, 0), NoDefense),
      Player("p4", Offense(66, 1, 0, 0, 0, 1, 0, 0, 0, 0, 0), NoDefense)>>

\* 100 plate appearances with ROE = 1 and FC = 1; 60 chances with 10 errors
LenientSeason ==
    <<Player("p1", Offense(70, 1, 0, 0, 0, 1, 0, 0, 0, 1, 1),
                   Defense(PyInt(0), 0, 0, 0, 40, 10, 10)),
      Player("p2", Offense(10, 0, 0, 0, 0, 0, 0, 0, 0, 0, 0),
                   Defense(PyFloat(17, 3), 2, 3, 1, 0, 0, 0)),
      Player("p3", Offense(20, 20, 0, 0, 0, 20, 0, 0, 0, 0, 0), NoDefense)>>

\* too few plate appearances and chances to qualify
SmallSeason ==
    <<Player("p1", Offense(2, 2, 1, 0, 0, 0, 0, 0, 2, 1, 0),
                   Defense(PyInt(6), 3, 4, 1, 2, 1, 1)),
      Player("p2", Offense(0, 0, 0, 0, 0, 0, 0, 0, 0, 0, 0),
                   Defense(PyInt(0), 0, 0, 0, 0, 0, 0)),
      Player("p3", NoOffense, NoDefense)>>

Seasons == {StrictSeason, LenientSeason, SmallSeason}

FullRoster ==
    <<RosterEntry("p1", <<"A","l">>, <<"B","o">>),
      RosterEntry("p2", <<"C","y">>, <<"D","i">>),
      RosterEntry("p3", <<"E","d">>, <<>>),
      RosterEntry("p4", <<"G","u","s">>, <<"H","o">>)>>

\* p1 has empty names, p2 is a placeholder, p3 is not on the roster
PlaceholderRoster ==
    <<RosterEntry("p1", <<>>, <<>>),
      RosterEntry("p2", <<"U","N","K","n","o","w","n">>, <<"K","i","d">>)>>

TeamRecord(id, wins, losses, ties, scored, allowed) ==
    [team_id |-> id, wins |-> wins, losses |-> losses, ties |-> ties,
     scored |-> scored, allowed |-> allowed]

Records == <<TeamRecord("A", 3, 1, 0, 20, 10), TeamRecord("B", 0, 0, 0, 0, 0),
             TeamRecord("Z", 1, 1, 1, 5, 5)>>

TeamsOutcomes ==
    {Returned(ListBody(l)) : l \in TeamLists}
    \cup {ApiError(401), ApiError(404), OtherError,
          Returned(AuthFlagBody), Returned(AuthMessageBody)}

SeasonOutcomes ==
    {Returned(DictBody(FALSE, <<>>, x)) : x \in Seasons}
    \cup {ApiError(401), ApiError(500), Returned(AuthFlagBody)}

RosterOutcomes ==
    {Returned(ListBody(FullRoster)), Returned(ListBody(PlaceholderRoster)),
     ApiError(401), Returned(AuthMessageBody)}

RecordsOutcomes ==
    {Returned(ListBody(Records)), Returned(DictBody(FALSE, <<>>, <<>>)),
     ApiError(401), Returned(AuthFlagBody)}

NotCalled == [raised |-> "not called", status_code |-> 0, body |-> NoBody]

Call(op, team_id, outcome) == [op |-> op, team |-> team_id, outcome |-> outcome]

----------------------------------------------------------------------------
(* The state machine *)

NoArg == [fn |-> "none"]

NoRet == [done |-> FALSE]

\* main.py 24: cache_store = {}
CacheIdle ==
    /\ cache_store = <<>>
    /\ now = 0
    /\ origin = <<>>
    /\ computed_by = "none"

HandlerIdle ==
    /\ teams_data = <<>>
    /\ idx = 1
    /\ batting_stats = <<>>
    /\ pitching_stats = <<>>
    /\ fielding_stats = <<>>
    /\ team_stats = <<>>
    /\ team_info_map = <<>>
    /\ raw_offense_stats = <<>>
    /\ response = NoResponse
    /\ calls = <<>>

\* main.py 24, 49: the module is loaded, startup_event has not run
Init ==
    /\ gc_client = "none"
    /\ pc = "startup"
    /\ HandlerIdle
    /\ arg = NoArg
    /\ ret = NoRet
    /\ CacheIdle

\* startup_event, main.py 68-78: the client is built, or building it fails
\* and gc_client stays None
StartupEvent ==
    /\ pc = "startup"
    /\ \E built \in BOOLEAN : gc_client' = IF built THEN "client" ELSE "none"
    /\ pc' = "idle"
    /\ UNCHANGED <<teams_data, idx, batting_stats, pitching_stats, fielding_stats,
                   team_stats, team_info_map, raw_offense_stats, response, calls,
                   arg, ret, cacheVars>>

\* get_all_stats, main.py 373-404: a request arrives, the organization's
\* teams are fetched and the accumulators are set up
GetAllStats ==
    /\ pc \in {"idle", "done"}
    /\ batting_stats' = <<>>
    /\ pitching_stats' = <<>>
    /\ fielding_stats' = <<>>
    /\ team_stats' = <<>>
    /\ team_info_map' = <<>>
    /\ raw_offense_stats' = <<>>
    /\ idx' = 1
    /\ IF gc_client = "none"
       THEN /\ response' = ErrorResult(503)
            /\ teams_data' = <<>>
            /\ calls' = <<>>
            /\ pc' = "done"
       ELSE \E outcome \in TeamsOutcomes :
                /\ calls' = <<Call("organizations.teams", NoId, outcome)>>
                /\ IF outcome.raised = "none" /\ ~check_auth_error(outcome.body)
                   THEN /\ teams_data' = outcome.body.content
                        /\ response' = NoResponse
                        /\ pc' = "loop"
                   ELSE /\ teams_data' = <<>>
                        /\ response' = TeamsFailure(outcome)
                        /\ pc' = "done"
    /\ UNCHANGED <<gc_client, arg, ret, cacheVars>>

\* main.py 406-559: one iteration of the loop over the teams
TeamIteration ==
    /\ pc = "loop"
    /\ idx <= Len(teams_data)
    /\ LET team == teams_data[idx]
           acc  == Acc(batting_stats, pitching_stats, fielding_stats, raw_offense_stats)
       IN  \E season \in SeasonOutcomes :
           \E roster \in (IF team.root_team_id = NoId \/ SeasonFailed(season)
                             \/ team.team_public_id = NoId
                          THEN {NotCalled} ELSE RosterOutcomes) :
               LET out == TeamBody(acc, team, season, roster)
               IN  /\ team.root_team_id = NoId => season = ApiError(500)
                   /\ batting_stats' = out.batting
                   /\ pitching_stats' = out.pitching
                   /\ fielding_stats' = out.fielding
                   /\ raw_offense_stats' = out.raw
                   /\ team_info_map' = TeamInfo(team_info_map, team)
                   /\ calls' = calls
                        \o (IF team.root_team_id = NoId THEN <<>>
                            ELSE <<Call("teams.season_stats", team.root_team_id, season)>>)
                        \o (IF roster = NotCalled THEN <<>>
                            ELSE <<Call("teams.public_players", team.root_team_id, roster)>>)
                   /\ idx' = AfterTeam(idx, teams_data,
                                       team.root_team_id # NoId /\ SeasonFailed(season))
    /\ UNCHANGED <<gc_client, pc, teams_data, team_stats, response, arg, ret,
                   cacheVars>>

\* main.py 561-645: the team records, the strictness indices, the
\* normalized values and the response
FinishStats ==
    /\ pc = "loop"
    /\ idx > Len(teams_data)
    /\ \E records \in RecordsOutcomes :
           LET acc == Acc(batting_stats, pitching_stats, fielding_stats, raw_offense_stats)
               ts  == TeamStats(records, team_info_map)
           IN  /\ team_stats' = ts
               /\ response' = Success(StatsBody(acc, ts))
               /\ calls' = Append(calls, Call("organizations.team_records", NoId, records))
    /\ pc' = "done"
    /\ UNCHANGED <<gc_client, teams_data, idx, batting_stats, pitching_stats,
                   fielding_stats, team_info_map, raw_offense_stats, arg, ret,
                   cacheVars>>

Next == StartupEvent \/ GetAllStats \/ TeamIteration \/ FinishStats

Spec == Init /\ [][Next]_vars

----------------------------------------------------------------------------
(* The pure functions on their own: Init draws the argument, the one       *)
(* action applies the function                                             *)

FunctionInit(args) ==
    /\ gc_client = "none"
    /\ pc = "function"
    /\ HandlerIdle
    /\ arg \in args
    /\ ret = NoRet
    /\ CacheIdle

Apply(fn, value) ==
    /\ pc = "function"
    /\ arg.fn = fn
    /\ ~ret.done
    /\ ret' = [done |-> TRUE, value |-> value]
    /\ UNCHANGED <<handlerVars, arg, cacheVars>>

(* calculate_scorer_strictness over up to MaxIndexTeams teams, each with   *)
(* one of these season totals                                              *)

MaxIndexTeams == 3

TeamNames == <<"T1", "T2", "T3", "T4", "T5">>

\* a batter with pa plate appearances, of them bb walks, one hit by pitch
\* when hbp = 1, and roe + fc judgment calls
Batter(pa, bb, hbp, roe, fc) == Offense(pa - bb - hbp, 0, bb, hbp, 0, 0, 0, 0, 0, roe, fc)

Fielder(po, a, e) == [putouts |-> po, assists |-> a, errors |-> e]

Totals(offense, fielding) == [offense |-> offense, fielding |-> fielding]

TeamTotals ==
    {Totals(<<>>, <<>>),
     \* 49 plate appearances; 50 chances
     Totals("p1" :> Batter(49, 2, 1, 3, 2), <<Fielder(30, 18, 2)>>),
     \* 49 + 1 plate appearances; 48 + 1 chances
     Totals(("p1" :> Batter(49, 0, 0, 3, 2)) @@ ("p2" :> Batter(1, 1, 0, 0, 0)),
            <<Fielder(30, 15, 3), Fielder(1, 0, 0)>>),
     Totals("p1" :> Batter(50, 5, 0, 0, 0), <<Fielder(60, 39, 1)>>),
     Totals("p1" :> Batter(100, 0, 0, 5, 5), <<Fielder(50, 40, 10)>>),
     Totals("p1" :> Batter(100, 10, 1, 1, 1), <<Fielder(25, 20, 5), Fielder(0, 0, 0)>>),
     Totals("p1" :> Batter(200, 0, 0, 2, 1), <<Fielder(150, 43, 7)>>)}

RECURSIVE FieldingOf(_, _)
\* the fielding records of teams i..MaxIndexTeams, in team order
FieldingOf(choice, i) ==
    IF i > MaxIndexTeams THEN <<>>
    ELSE [k \in DOMAIN choice[i].fielding |->
             choice[i].fielding[k] @@ [team_id |-> TeamNames[i]]]
         \o FieldingOf(choice, i + 1)

StrictnessArgs ==
    {[fn       |-> "calculate_scorer_strictness",
      raw      |-> [t \in {TeamNames[i] : i \in 1..MaxIndexTeams} |->
                       choice[CHOOSE i \in 1..MaxIndexTeams : TeamNames[i] = t].offense],
      fielding |-> FieldingOf(choice, 1)]
     : choice \in [1..MaxIndexTeams -> TeamTotals]}

ApplyStrictness ==
    Apply("calculate_scorer_strictness",
          calculate_scorer_strictness(<<>>, arg.fielding, arg.raw))

SpecStrictness == FunctionInit(StrictnessArgs) /\ [][ApplyStrictness]_vars

(* normalize_stat on values in thousandths *)

MaxValue == 1200

StrictnessValues == {-1000, -707, -500, -1, 0, 1, 500, 707, 1000}

FactorValues == {0, 5, 10}

NormalizeArgs ==
    {[fn |-> "normalize_stat", value |-> PyFloat(v, 1000), strictness |-> s, factor |-> f]
     : v \in 0..MaxValue, s \in StrictnessValues, f \in FactorValues}

ApplyNormalize ==
    Apply("normalize_stat", normalize_stat(arg.value, arg.strictness, arg.factor))

SpecNormalize == FunctionInit(NormalizeArgs) /\ [][ApplyNormalize]_vars

(* format_innings_pitched on whole innings plus thousandths or thirds *)

MaxInnings == 6

InningsArgs ==
    {[fn |-> "format_innings_pitched", ip |-> PyFloat(1000 * w + f, 1000)]
     : w \in 0..MaxInnings, f \in 0..999}
    \cup {[fn |-> "format_innings_pitched", ip |-> PyFloat(3 * w + k, 3)]
          : w \in 0..MaxInnings, k \in 0..2}
    \cup {[fn |-> "format_innings_pitched", ip |-> PyInt(w)] : w \in 0..MaxInnings}

ApplyInnings == Apply("format_innings_pitched", format_innings_pitched(arg.ip))

SpecInnings == FunctionInit(InningsArgs) /\ [][ApplyInnings]_vars

(* The per-player derivations and the normalization that follows, for one  *)
(* player of one team, over all small counters                             *)

MaxCount == 2

OffenseArgs ==
    {Offense(ab, h, bb, 0, sf, h - hr, 0, 0, hr, 0, 0)
     : ab \in 0..MaxCount, h \in 0..MaxCount, hr \in 0..MaxCount,
       bb \in 0..1, sf \in 0..1}

DefenseArgs ==
    {Defense(ip, er, h, 0, po, a, e)
     : ip \in {PyInt(0), PyFloat(0, 1), PyFloat(1, 3), PyInt(1)},
       er \in 0..1, h \in 0..1, po \in 0..1, a \in 0..1, e \in 0..1}

LinesArgs ==
    {[fn |-> "lines", offense |-> o, defense |-> d]
     : o \in {x \in OffenseArgs : x.HR <= x.H} \cup {NoOffense},
       d \in DefenseArgs \cup {NoDefense}}

LinesOf(offense, defense) ==
    LET team == Team("A", "Aces", "pubA", "urlA")
    IN  StatsBody(PlayerLoop(<<Player("p1", offense, defense)>>, FullRoster, team,
                             Acc(<<>>, <<>>, <<>>, "A" :> <<>>)),
                  <<>>)

ApplyLines == Apply("lines", LinesOf(arg.offense, arg.defense))

SpecLines == FunctionInit(LinesArgs) /\ [][ApplyLines]_vars

----------------------------------------------------------------------------
(* The cached endpoints and the credential change. The handlers are        *)
(* coroutines that never await, so each request runs to completion before  *)
(* the next one is taken                                                   *)

\* the tokens POST /api/token may carry; the client built from a token is
\* named by it, the client of startup_event is "client"
Tokens == {"t1", "t2"}

OrganizationIds == {"o1", "o2"}

\* the instants at which time.time() is read
Instants == {0, 1, 600, 3600}

\* main.py 372: @cache_with_ttl(ttl_seconds=600)
StatsTTL == 600

\* main.py 138: @cache_with_ttl(ttl_seconds=3600)
OrganizationsTTL == 3600

\* main.py 32: f"{func.__name__}:{args}:{kwargs}"
CacheKey(name, args) == <<name, args>>

Fresh_inclusive(store, cache_key, ttl_seconds, t) ==
    /\ cache_key \in DOMAIN store
    /\ t - store[cache_key].timestamp <= ttl_seconds

\* main.py 35-38: the key is stored and its entry is younger than the TTL
Fresh(store, cache_key, ttl_seconds, t) ==
    /\ cache_key \in DOMAIN store
    /\ t - store[cache_key].timestamp < ttl_seconds

\* main.py 42: cache_store[cache_key] = (result, time.time())
Stored(store, cache_key, result, t) ==
    (cache_key :> [data |-> result, timestamp |-> t]) @@ store

RECURSIVE TeamsLoop(_, _, _, _)
\* main.py 406-559: the loop over teams_data, each team answered alike
TeamsLoop(teams, season, roster, acc) ==
    IF teams = <<>> THEN acc
    ELSE TeamsLoop(Tail(teams), season, roster,
                   TeamBody(acc, Head(teams), season, roster))

RECURSIVE TeamInfoLoop(_, _)
\* main.py 423, over the whole list
TeamInfoLoop(teams, info) ==
    IF teams = <<>> THEN info
    ELSE TeamInfoLoop(Tail(teams), TeamInfo(info, Head(teams)))

\* get_all_stats, main.py 373-659, as a function of the installed client
\* and of what the collaborator answered: the value returned (status 200)
\* or the HTTPException raised
get_all_stats(client, teams, season, roster, records) ==
    IF client = "none" THEN ErrorResult(503)
    ELSE IF teams.raised # "none" \/ check_auth_error(teams.body)
    THEN TeamsFailure(teams)
    ELSE Success(StatsBody(TeamsLoop(teams.body.content, season, roster,
                                     Acc(<<>>, <<>>, <<>>, <<>>)),
                           TeamStats(records,
                                     TeamInfoLoop(teams.body.content, <<>>))))

\* the calls get_all_stats makes, main.py 380, 427, 432, 563
StatsCalls(client, teams, season, roster, records) ==
    IF client = "none" THEN <<>>
    ELSE IF teams.raised # "none" \/ check_auth_error(teams.body)
    THEN <<Call("organizations.teams", NoId, teams)>>
    ELSE <<Call("organizations.teams", NoId, teams)>>
         \o [i \in 1..Len(teams.body.content) |->
                Call("teams.season_stats", teams.body.content[i].root_team_id, season)]
         \o (IF SeasonFailed(season) THEN <<>>
             ELSE [i \in 1..Len(teams.body.content) |->
                      Call("teams.public_players",
                           teams.body.content[i].root_team_id, roster)])
         \o <<Call("organizations.team_records", NoId, records)>>

\* the teams the collaborator lists for an organization
OrganizationTeams(organization_id) ==
    IF organization_id = "o1" THEN <<Team("A", "Aces", "pubA", "urlA")>>
    ELSE <<Team("B", "Bats", "pubB", "none")>>

CachedTeamsOutcomes(organization_id) ==
    {Returned(ListBody(OrganizationTeams(organization_id))), ApiError(401),
     ApiError(500)}

\* what the other calls of get_all_stats answer
CachedSeason ==
    Returned(DictBody(FALSE, <<>>,
                      <<Player("p1", Offense(2, 1, 0, 0, 0, 1, 0, 0, 0, 0, 0),
                               NoDefense)>>))

CachedRoster == Returned(ListBody(FullRoster))

CachedRecords == Returned(ListBody(<<TeamRecord("A", 3, 1, 0, 20, 10)>>))

\* the clients gc_client may hold
Clients == {"none", "client"} \cup Tokens

\* get_all_stats over the answers of this world
StatsResults ==
    [client \in Clients,
     teams \in UNION {CachedTeamsOutcomes(o) : o \in OrganizationIds} |->
        [result |-> get_all_stats(client, teams, CachedSeason, CachedRoster,
                                  CachedRecords),
         made   |-> StatsCalls(client, teams, CachedSeason, CachedRoster,
                               CachedRecords)]]

\* main.py 168-178: a team of the user and the organizations it plays in
Membership(organization_id, status) ==
    [organization_id |-> organization_id, status |-> status]

UserTeam(organizations) == [organizations |-> organizations]

\* main.py 196-206: the organization as the collaborator describes it
Organization(id, name, season_year) ==
    [id |-> id, name |-> name, season_year |-> season_year]

OrganizationData(org_id) ==
    IF org_id = "o1" THEN Organization("o1", "Fall League", 2024)
    ELSE Organization("o2", "Spring League", 2025)

\* main.py 189-194: the avatar call answers for o1 and fails for o2
AvatarUrl(org_id) == IF org_id = "o1" THEN "url1" ELSE "none"

\* main.py 165-178: the ids of the active organizations of the user's teams
OrganizationIdsOf(teams) ==
    UNION {{teams[i].organizations[j].organization_id :
               j \in {k \in DOMAIN teams[i].organizations :
                         /\ teams[i].organizations[k].organization_id # NoId
                         /\ teams[i].organizations[k].status = "active"}}
           : i \in DOMAIN teams}

\* main.py 183-208: the entry of one organization, or none when the
\* details call fails; a failed avatar call leaves avatar_url None
OrganizationEntries(ids, details) ==
    IF details = "failed" THEN {}
    ELSE {OrganizationData(org_id) @@ [avatar_url |-> AvatarUrl(org_id)]
          : org_id \in ids}

RECURSIVE SortedOrganizations(_)
\* main.py 211: descending season_year (the organizations of this world
\* differ in season_year, so the name never decides)
SortedOrganizations(entries) ==
    IF entries = {} THEN <<>>
    ELSE LET first == CHOOSE x \in entries :
                          \A y \in entries : x.season_year >= y.season_year
         IN  <<first>> \o SortedOrganizations(entries \ {first})

\* main.py 213: the list returned, as the body of the answer
OrganizationsBody(org_list) == [organizations |-> org_list]

\* get_organizations, main.py 140-227, as a function of the installed
\* client and of what the collaborator answered
get_organizations(client, teams, details) ==
    IF client = "none" THEN ErrorResult(503)
    ELSE IF teams.raised # "none" \/ check_auth_error(teams.body)
    THEN TeamsFailure(teams)
    ELSE Success(OrganizationsBody(SortedOrganizations(
             OrganizationEntries(OrganizationIdsOf(teams.body.content),
                                 details))))

\* the calls get_organizations makes, main.py 146, 185
OrganizationsCalls(client, teams, details) ==
    IF client = "none" THEN <<>>
    ELSE <<Call("me.teams", NoId, teams)>>
         \o (IF teams.raised # "none" \/ check_auth_error(teams.body)
                \/ OrganizationIdsOf(teams.body.content) = {}
             THEN <<>>
             ELSE <<Call("organizations.get", NoId, details)>>)

\* what me.teams answers: the user's teams, or a failure
MeTeamsOutcomes ==
    {Returned(ListBody(<<UserTeam(<<Membership("o1", "active"),
                                   Membership("o3", "archived")>>),
                         UserTeam(<<>>),
                         UserTeam(<<Membership("o2", "active"),
                                   Membership("o1", "active")>>)>>)),
     ApiError(401), ApiError(500)}

\* what the test call of update_token answers, main.py 107; NotCalled
\* when the client could not be built
TestOutcomes ==
    {Returned(ListBody(<<>>)), ApiError(401), ApiError(500), OtherError,
     Returned(AuthMessageBody), NotCalled}

\* the body of the answer of a successful update_token, main.py 114-117
TokenUpdated == [status |-> "success"]

update_token_keep_cache(client, store, token, built, test_response) ==
    IF ~built THEN [gc_client |-> client, cache_store |-> store,
                    response |-> ErrorResult(400)]
    ELSE IF test_response.raised = "none" /\ ~check_auth_error(test_response.body)
    THEN [gc_client |-> token, cache_store |-> store,
          response |-> Success(TokenUpdated)]
    ELSE [gc_client |-> client, cache_store |-> store,
          response |-> AuthErrorResult]

update_token_install_first(client, store, token, built, test_response) ==
    IF ~built THEN [gc_client |-> client, cache_store |-> store,
                    response |-> ErrorResult(400)]
    ELSE IF test_response.raised = "none" /\ ~check_auth_error(test_response.body)
    THEN [gc_client |-> token, cache_store |-> <<>>,
          response |-> Success(TokenUpdated)]
    ELSE [gc_client |-> token, cache_store |-> store,
          response |-> AuthErrorResult]

\* update_token, main.py 97-134: the client, the cache and the answer it
\* leaves, given whether the client could be built and what the test call
\* answered
update_token(client, store, token, built, test_response) ==
    IF ~built
    THEN [gc_client |-> client, cache_store |-> store,
          response |-> ErrorResult(400)]
    ELSE IF test_response.raised = "ApiError"
    THEN [gc_client |-> client, cache_store |-> store,
          response |-> IF test_response.status_code = 401 THEN AuthErrorResult
                       ELSE ErrorResult(test_response.status_code)]
    ELSE IF test_response.raised # "none"
    THEN [gc_client |-> client, cache_store |-> store,
          response |-> ErrorResult(400)]
    ELSE IF check_auth_error(test_response.body)
    THEN [gc_client |-> client, cache_store |-> store,
          response |-> AuthErrorResult]
    ELSE [gc_client |-> token, cache_store |-> <<>>,
          response |-> Success(TokenUpdated)]

\* a request: the endpoint and its arguments
Request(name, args) == [fn |-> name, args |-> args]

\* the accumulators of get_all_stats are locals of the call
LocalsIdle == <<teams_data, idx, batting_stats, pitching_stats, fielding_stats,
                team_stats, team_info_map, raw_offense_stats>>

\* POST /api/token, main.py 97-134
UpdateToken ==
    /\ pc = "idle"
    /\ \E token \in Tokens, test_response \in TestOutcomes :
           LET built == test_response # NotCalled
               out   == update_token(gc_client, cache_store, token, built,
                                     test_response)
           IN  /\ gc_client' = out.gc_client
               /\ cache_store' = out.cache_store
               /\ origin' = [k \in DOMAIN out.cache_store |-> origin[k]]
               /\ response' = out.response
               /\ arg' = Request("update_token", <<token>>)
               /\ calls' = IF built THEN <<Call("me.teams", NoId, test_response)>>
                           ELSE <<>>
    /\ computed_by' = "none"
    /\ UNCHANGED <<pc, now, ret, LocalsIdle>>

\* wrapper, main.py 30-43, around a function whose call would return or
\* raise result after the calls made, the clock reading later at line 42
Wrapper(name, args, ttl_seconds, result, made, later) ==
    LET cache_key == CacheKey(name, args)
    IN  /\ arg' = Request(name, args)
        /\ IF Fresh(cache_store, cache_key, ttl_seconds, now)
           THEN /\ response' = cache_store[cache_key].data
                /\ calls' = <<>>
                /\ computed_by' = origin[cache_key]
                /\ UNCHANGED <<cache_store, origin, now>>
           ELSE /\ response' = result
                /\ calls' = made
                /\ computed_by' = gc_client
                /\ now' = later
                /\ IF result.status_code = 200
                   THEN /\ cache_store' = Stored(cache_store, cache_key, result, later)
                        /\ origin' = (cache_key :> gc_client) @@ origin
                   ELSE UNCHANGED <<cache_store, origin>>
        /\ UNCHANGED <<gc_client, pc, ret, LocalsIdle>>

\* GET /api/organizations, main.py 137-227, behind the cache
CachedGetOrganizations ==
    /\ pc = "idle"
    /\ \E teams \in MeTeamsOutcomes, details \in {"returned", "failed"},
          later \in {t \in Instants : t >= now} :
           Wrapper("get_organizations", <<>>, OrganizationsTTL,
                   get_organizations(gc_client, teams, details),
                   OrganizationsCalls(gc_client, teams, details), later)

\* GET /api/stats/{organization_id}, main.py 371-659, behind the cache
CachedGetAllStats ==
    /\ pc = "idle"
    /\ \E organization_id \in OrganizationIds,
          later \in {t \in Instants : t >= now} :
       \E teams \in CachedTeamsOutcomes(organization_id) :
           Wrapper("get_all_stats", <<organization_id>>, StatsTTL,
                   StatsResults[gc_client, teams].result,
                   StatsResults[gc_client, teams].made, later)

\* time passes between two requests
Tick ==
    /\ pc = "idle"
    /\ \E t \in Instants : t > now /\ now' = t
    /\ UNCHANGED <<handlerVars, arg, ret, cache_store, origin, computed_by>>

NextCache ==
    \/ StartupEvent
    \/ UpdateToken
    \/ CachedGetOrganizations
    \/ CachedGetAllStats
    \/ Tick

SpecCache == Init /\ [][NextCache]_vars

----------------------------------------------------------------------------
(* What the history of a request says *)

Done == pc = "done"

Succeeded == Done /\ response.status_code = 200

\* the outcome of the call op made for team t in this request, if any
OutcomeOf(op, t) ==
    IF \E i \in DOMAIN calls : calls[i].op = op /\ calls[i].team = t
    THEN calls[CHOOSE i \in DOMAIN calls : calls[i].op = op /\ calls[i].team = t].outcome
    ELSE NotCalled

SeasonOf(t) == OutcomeOf("teams.season_stats", t)

RosterOf(t) == OutcomeOf("teams.public_players", t)

AuthFailureSeen == \E i \in DOMAIN calls : IsAuthFailure(calls[i].outcome)

\* the teams whose season-stats call failed, and not for authentication
SeasonFailedTeams ==
    {calls[i].team : i \in {j \in DOMAIN calls :
                              /\ calls[j].op = "teams.season_stats"
                              /\ IsOtherFailure(calls[j].outcome)}}

RECURSIVE Replay(_, _)
\* the accumulators after the loop over teams, each team answered as the
\* history says
Replay(teams, acc) ==
    IF teams = <<>> THEN acc
    ELSE Replay(Tail(teams),
                TeamBody(acc, Head(teams), SeasonOf(Head(teams).root_team_id),
                         RosterOf(Head(teams).root_team_id)))

Without(teams, t) == SelectSeq(teams, LAMBDA x : x.root_team_id # t)

\* the player collections of the response the same answers give when team t
\* is not in the organization's list
ResponseWithout(t) == StatsBody(Replay(Without(teams_data, t), Acc(<<>>, <<>>, <<>>, <<>>)), <<>>)

RecordsOfTeam(collection, t) == {i \in DOMAIN collection : collection[i].team_id = t}

----------------------------------------------------------------------------
(* The claims *)

\* C1, as stated: when any collaborator call of the aggregation signals an
\* authentication failure (status 401 or the missing-authentication
\* marker), the request ends with the authentication-error result.
C1_AuthFailureAborts == (Done /\ AuthFailureSeen) => response = AuthErrorResult

\* C2: when the season-stats call of a team fails with a non-authentication
\* error the request still succeeds, that team has no batting, pitching or
\* fielding record, and the three player collections are those of the same
\* request without that team in the list, wherever the team stands; every
\* team of the list that has an id was asked for its season stats.
C2_FailedTeamSkipped ==
    Done => \A t \in SeasonFailedTeams :
                /\ response.status_code = 200
                /\ \A i \in DOMAIN teams_data :
                       teams_data[i].root_team_id # NoId
                           => SeasonOf(teams_data[i].root_team_id) # NotCalled
                /\ RecordsOfTeam(response.body.batting, t) = {}
                /\ RecordsOfTeam(response.body.pitching, t) = {}
                /\ RecordsOfTeam(response.body.fielding, t) = {}
                /\ response.body.batting = ResponseWithout(t).batting
                /\ response.body.pitching = ResponseWithout(t).pitching
                /\ response.body.fielding = ResponseWithout(t).fielding

\* C2 happens: the first team's season-stats call failed with status 500 and
\* a later team put records into the response
C2_Witness ==
    /\ Succeeded
    /\ Len(teams_data) >= 2
    /\ teams_data[1].root_team_id \in SeasonFailedTeams
    /\ response.body.batting # <<>>
    /\ response.body.fielding # <<>>

\* the roster the loop worked with for team t
RosterUsed(t) ==
    LET r == RosterOf(t)
    IN  IF r.raised = "none" /\ r.body.type = "list" THEN r.body.content ELSE <<>>

UnknownUpper == <<"U","N","K","N","O","W","N">>

\* s holds "unknown" in some mix of upper and lower case
HoldsUnknown(s) ==
    \E off \in 0..(Len(s) - 7) :
        \A k \in 1..7 : s[off + k] \in {UnknownText[k], UnknownUpper[k]}

\* the record's player stands on the roster of its team under a name that is
\* not blank and does not hold "unknown"
ProperlyNamed(rec) ==
    \E i \in DOMAIN RosterUsed(rec.team_id) :
        LET e    == RosterUsed(rec.team_id)[i]
            full == e.first_name \o <<" ">> \o e.last_name
        IN  /\ e.id = rec.player_id
            /\ \E k \in DOMAIN full : full[k] # " "
            /\ ~HoldsUnknown(full)

\* C10: no batting, pitching or fielding record of the response belongs to
\* a player whose resolved name is empty or holds "unknown" in any letter
\* case; a player id that is not on the team's roster resolves to the empty
\* name.
C10_NoUnknownPlayers ==
    Succeeded =>
        /\ \A i \in DOMAIN response.body.batting : ProperlyNamed(response.body.batting[i])
        /\ \A i \in DOMAIN response.body.pitching : ProperlyNamed(response.body.pitching[i])
        /\ \A i \in DOMAIN response.body.fielding : ProperlyNamed(response.body.fielding[i])

\* C10 happens: a team's season stats arrived with the roster of blank and
\* placeholder names, none of its players is in the response, and another
\* team's players are
C10_Witness ==
    /\ Succeeded
    /\ response.body.batting # <<>>
    /\ \E t \in {"A", "B"} :
           /\ SeasonOf(t) = Returned(DictBody(FALSE, <<>>, StrictSeason))
           /\ RosterOf(t) = Returned(ListBody(PlaceholderRoster))
           /\ RecordsOfTeam(response.body.batting, t) = {}
           /\ RecordsOfTeam(response.body.pitching, t) = {}
           /\ RecordsOfTeam(response.body.fielding, t) = {}

\* plate appearances, judgment calls and chances of a team, summed over its
\* players
PlateAppearances(raw, t) ==
    SumOver(DOMAIN raw[t], [p \in DOMAIN raw[t] |->
                               raw[t][p].AB + raw[t][p].BB + raw[t][p].HBP + raw[t][p].SF])

JudgmentCalls(raw, t) ==
    SumOver(DOMAIN raw[t], [p \in DOMAIN raw[t] |-> raw[t][p].ROE + raw[t][p].FC])

Chances(fielding, t) ==
    SumOver(RecordsOfTeam(fielding, t),
            [i \in RecordsOfTeam(fielding, t) |->
                fielding[i].putouts + fielding[i].assists + fielding[i].errors])

Errors(fielding, t) ==
    SumOver(RecordsOfTeam(fielding, t),
            [i \in RecordsOfTeam(fielding, t) |-> fielding[i].errors])

QualifiedOffense(raw) == {t \in DOMAIN raw : PlateAppearances(raw, t) >= 50}

QualifiedDefense(fielding) ==
    {t \in {fielding[i].team_id : i \in DOMAIN fielding} : Chances(fielding, t) >= 50}

\* a formatted rate in thousandths
Milli(s) == s.n * Pow10(3 - s.dp)

\* C5, as stated: when fewer than two teams qualify on a side, the
\* normalized values of that side equal the originals: normalized batting
\* average and normalized slugging percentage for batting records,
\* normalized fielding percentage for fielding records.
C5_NoAdjustment ==
    Succeeded =>
        /\ Cardinality(QualifiedOffense(raw_offense_stats)) < 2 =>
               \A i \in DOMAIN response.body.batting :
                   LET b == response.body.batting[i]
                   IN  /\ Milli(b.normalized_batting_avg) = Milli(b.batting_avg)
                       /\ Milli(b.normalized_slugging_pct) = Milli(b.slugging_pct)
        /\ Cardinality(QualifiedDefense(fielding_stats)) < 2 =>
               \A i \in DOMAIN response.body.fielding :
                   LET f == response.body.fielding[i]
                   IN  Milli(f.normalized_fielding_pct) = Milli(f.fielding_pct)

\* team a has the higher judgment-call rate (ROE + FC) / PA
HigherRate(raw, a, b) ==
    JudgmentCalls(raw, a) * PlateAppearances(raw, b)
        > JudgmentCalls(raw, b) * PlateAppearances(raw, a)

BattingOf(t) == {response.body.batting[i] : i \in RecordsOfTeam(response.body.batting, t)}

\* C7, as stated: with exactly two teams qualifying on offense and
\* different judgment-call rates, every batting record of the higher-rate
\* team has a normalized batting average above its batting average and
\* every batting record of the lower-rate team has one below.
C7_EveryRecordMoves ==
    (Succeeded /\ Cardinality(QualifiedOffense(raw_offense_stats)) = 2) =>
        \A a, b \in QualifiedOffense(raw_offense_stats) :
            HigherRate(raw_offense_stats, a, b) =>
                /\ \A r \in BattingOf(a) : Milli(r.normalized_batting_avg) > Milli(r.batting_avg)
                /\ \A r \in BattingOf(b) : Milli(r.normalized_batting_avg) < Milli(r.batting_avg)

\* C7, amended: with exactly two teams qualifying on offense and different
\* judgment-call rates, a batting record with batting average at most 1.000
\* never moves the wrong way (higher-rate team: normalized >= original;
\* lower-rate team: normalized <= original), and it moves strictly when the
\* batting average is at least 0.015 (and, for the higher-rate team, below
\* 1.000).
C7_RecordsMoveWithRate ==
    (Succeeded /\ Cardinality(QualifiedOffense(raw_offense_stats)) = 2) =>
        \A a, b \in QualifiedOffense(raw_offense_stats) :
            HigherRate(raw_offense_stats, a, b) =>
                /\ \A r \in BattingOf(a) :
                       Milli(r.batting_avg) <= 1000 =>
                           /\ Milli(r.normalized_batting_avg) >= Milli(r.batting_avg)
                           /\ (Milli(r.batting_avg) >= 15 /\ Milli(r.batting_avg) < 1000)
                                  => Milli(r.normalized_batting_avg) > Milli(r.batting_avg)
                /\ \A r \in BattingOf(b) :
                       Milli(r.batting_avg) <= 1000 =>
                           /\ Milli(r.normalized_batting_avg) <= Milli(r.batting_avg)
                           /\ Milli(r.batting_avg) >= 15
                                  => Milli(r.normalized_batting_avg) < Milli(r.batting_avg)

\* C7 happens: the team with PA = 100, ROE = 5, FC = 5 and the team with
\* PA = 100, ROE = 1, FC = 1 both put batting records into the response,
\* one of the first is raised, one of the second lowered, and a hitless
\* record of the first stays at zero
C7_Witness ==
    /\ Succeeded
    /\ QualifiedOffense(raw_offense_stats) = {"A", "B"}
    /\ PlateAppearances(raw_offense_stats, "A") = 100
    /\ JudgmentCalls(raw_offense_stats, "A") = 10
    /\ PlateAppearances(raw_offense_stats, "B") = 100
    /\ JudgmentCalls(raw_offense_stats, "B") = 2
    /\ \E r \in BattingOf("A") : Milli(r.normalized_batting_avg) > Milli(r.batting_avg)
    /\ \E r \in BattingOf("B") : Milli(r.normalized_batting_avg) < Milli(r.batting_avg)
    /\ \E r \in BattingOf("A") : r.hits = 0 /\ Milli(r.normalized_batting_avg) = 0

Applied(fn) == arg.fn = fn /\ ret.done

\* C3: a team is in the offensive index only if its plate appearances
\* (AB + BB + HBP + SF over its players) are at least 50, and in the
\* defensive index only if its chances (PO + A + E) are at least 50; a side
\* with fewer than two such teams has an empty index.
C3_SampleSizeGate ==
    Applied("calculate_scorer_strictness") =>
        LET qo == QualifiedOffense(arg.raw)
            qd == QualifiedDefense(arg.fielding)
        IN  /\ DOMAIN ret.value.offensive \subseteq qo
            /\ DOMAIN ret.value.defensive \subseteq qd
            /\ Cardinality(qo) < 2 => DOMAIN ret.value.offensive = {}
            /\ Cardinality(qd) < 2 => DOMAIN ret.value.defensive = {}

\* C3 happens: two teams qualify on offense and are indexed, a third has 49
\* plate appearances and is not, and the defensive index is empty because
\* one team only has 50 chances
C3_Witness ==
    /\ Applied("calculate_scorer_strictness")
    /\ Cardinality(DOMAIN ret.value.offensive) = 2
    /\ \E t \in DOMAIN arg.raw :
           PlateAppearances(arg.raw, t) = 49 /\ t \notin DOMAIN ret.value.offensive
    /\ Cardinality(QualifiedDefense(arg.fielding)) = 1
    /\ \E t \in DOMAIN arg.raw : Chances(arg.fielding, t) = 49
    /\ DOMAIN ret.value.defensive = {}

\* C4: every score of the offensive and of the defensive index lies in
\* [-1.0, 1.0] (in thousandths, -1000..1000), also when all qualifying teams
\* have the same rate.
C4_ScoresInRange ==
    Applied("calculate_scorer_strictness") =>
        /\ \A t \in DOMAIN ret.value.offensive :
               ret.value.offensive[t] >= -1000 /\ ret.value.offensive[t] <= 1000
        /\ \A t \in DOMAIN ret.value.defensive :
               ret.value.defensive[t] >= -1000 /\ ret.value.defensive[t] <= 1000

\* C4 happens: the teams of the offensive index all have the same rate (the
\* standard deviation is zero) and score 0, while a team of the defensive
\* index stands at the clamp
C4_Witness ==
    /\ Applied("calculate_scorer_strictness")
    /\ Cardinality(DOMAIN ret.value.offensive) >= 2
    /\ \A a, b \in DOMAIN ret.value.offensive :
           JudgmentCalls(arg.raw, a) * PlateAppearances(arg.raw, b)
               = JudgmentCalls(arg.raw, b) * PlateAppearances(arg.raw, a)
    /\ \A t \in DOMAIN ret.value.offensive : ret.value.offensive[t] = 0
    /\ \E t \in DOMAIN ret.value.defensive : ret.value.defensive[t] \in {-1000, 1000}

\* the result of normalize_stat in units of 1e-8 (it is at most 1)
Units(x) == x.num * (100000000 \div x.den)

\* value v (thousandths) times 1 + s * f * 0.1, in units of 1e-8
Adjusted(v, s, f) == v * (100000 + s * f)

\* C6: normalize_stat returns 0 for the value 0 whatever the strictness, and
\* otherwise value * (1 + strictness * factor * 0.1) clamped to [0, 1]; with
\* factor 0.5 the unclamped result differs from the value by at most 5% of
\* it, and 0.500 at strictness 1.0 gives 0.525.
C6_NormalizeStat ==
    Applied("normalize_stat") =>
        LET v == arg.value.num * (1000 \div arg.value.den)
            u == Adjusted(v, arg.strictness, arg.factor)
        IN  /\ v = 0 => ret.value = PyInt(0)
            /\ v # 0 => Units(ret.value) = Max(0, Min(100000000, u))
            /\ (arg.factor = 5 /\ u <= 100000000) =>
                   20 * Abs(Units(ret.value) - 100000 * v) <= 100000 * v
            /\ (v = 500 /\ arg.strictness = 1000 /\ arg.factor = 5) =>
                   Units(ret.value) = 52500000

\* C6 happens: 0.500 at strictness 1.0 and factor 0.5 has been normalized
C6_Witness ==
    /\ Applied("normalize_stat")
    /\ arg.value = PyFloat(500, 1000)
    /\ arg.strictness = 1000
    /\ arg.factor = 5
    /\ format_stat(ret.value, 3) = StrFixed(3, 525)

\* Behind the thresholds of C7 as amended: at the two scores exactly two
\* qualifying teams get (0.707 and -0.707), a value of at most 1.000 never
\* moves the wrong way once formatted to three decimals, and a value of at
\* least 0.015 moves strictly (upwards only below 1.000).
C7_Thresholds ==
    (Applied("normalize_stat") /\ arg.factor = 5 /\ arg.value.num <= arg.value.den) =>
        LET v == arg.value.num * (1000 \div arg.value.den)
            n == Milli(format_stat(ret.value, 3))
        IN  /\ arg.strictness = 707 => n >= v /\ ((v >= 15 /\ v < 1000) => n > v)
            /\ arg.strictness = -707 => n <= v /\ (v >= 15 => n < v)

Zero == StrInt(0)

\* C8: every derived rate is "0" when its denominator is 0, and no division
\* by zero happens: batting average and slugging for AB = 0, on-base
\* percentage for PA = 0, ERA and WHIP for IP = 0, fielding percentage for
\* PO + A + E = 0; the normalized values of such a zero are "0" as well.
C8_ZeroDenominators ==
    Applied("lines") =>
        /\ \A i \in DOMAIN ret.value.batting :
               LET b == ret.value.batting[i]
               IN  /\ {b.batting_avg.t, b.on_base_pct.t, b.slugging_pct.t}
                          \subseteq {"str", "fixed"}
                   /\ arg.offense.AB = 0 =>
                          /\ b.batting_avg = Zero /\ b.slugging_pct = Zero
                          /\ b.normalized_batting_avg = Zero
                          /\ b.normalized_slugging_pct = Zero
                   /\ arg.offense.AB + arg.offense.BB + arg.offense.HBP + arg.offense.SF = 0
                          => b.on_base_pct = Zero
        /\ \A i \in DOMAIN ret.value.pitching :
               LET p == ret.value.pitching[i]
               IN  /\ {p.era.t, p.whip.t} \subseteq {"str", "fixed"}
                   /\ arg.defense.IP.num = 0 => p.era = Zero /\ p.whip = Zero
        /\ \A i \in DOMAIN ret.value.fielding :
               LET f == ret.value.fielding[i]
               IN  /\ f.fielding_pct.t \in {"str", "fixed"}
                   /\ arg.defense.PO + arg.defense.A + arg.defense.E = 0 =>
                          /\ f.fielding_pct = Zero
                          /\ f.normalized_fielding_pct = Zero

\* C8 happens: a player with hits but no at-bat and no plate appearance,
\* no inning pitched (IP = 0.0) and no chance has its three lines
C8_Witness ==
    /\ Applied("lines")
    /\ arg.offense.present /\ arg.offense.AB = 0 /\ arg.offense.H > 0
    /\ arg.offense.BB + arg.offense.SF = 0
    /\ arg.defense.present /\ arg.defense.IP = PyFloat(0, 1) /\ arg.defense.ER > 0
    /\ arg.defense.PO + arg.defense.A + arg.defense.E = 0
    /\ Len(ret.value.batting) = 1 /\ ret.value.batting[1].on_base_pct = Zero
    /\ Len(ret.value.pitching) = 1 /\ ret.value.pitching[1].era = Zero
    /\ Len(ret.value.fielding) = 1 /\ ret.value.fielding[1].normalized_fielding_pct = Zero

\* C9, as stated: for every innings-pitched value the result is the integer
\* part, a dot and one digit of outs that is 0, 1 or 2; for n + k/3 it is
\* "n.k".
C9_OutsDigit ==
    Applied("format_innings_pitched") =>
        LET n    == arg.ip.num \div arg.ip.den
            frac == arg.ip.num - n * arg.ip.den
        IN  /\ ret.value.whole = n
            /\ ret.value.outs \in {0, 1, 2}
            /\ (3 * frac) % arg.ip.den = 0 => ret.value.outs = (3 * frac) \div arg.ip.den

----------------------------------------------------------------------------
(* The claims about the cache and the credential change *)

\* only the clock moved
PureTick ==
    /\ now' # now
    /\ UNCHANGED <<handlerVars, arg, ret, cache_store, origin, computed_by>>

\* the last request was a GET of a cached endpoint and it was answered 200
GetAnswered ==
    /\ arg.fn \in {"get_organizations", "get_all_stats"}
    /\ response.status_code = 200

\* C11: after a successful POST /api/token the cache is empty and the new
\* client is installed; every entry of the cache was computed by the
\* installed client, and every answered GET of /api/organizations or
\* /api/stats/{id} was computed by the installed client, so no response
\* cached under an earlier credential is served after the change.
C11_NoResponseOfEarlierCredential ==
    /\ (arg.fn = "update_token" /\ response.status_code = 200)
           => (cache_store = <<>> /\ gc_client = arg.args[1])
    /\ \A k \in DOMAIN cache_store : origin[k] = gc_client
    /\ GetAnswered => computed_by = gc_client

\* C11 happens: a client installed by POST /api/token answered a GET of the
\* stats by asking the collaborator, at a time when an entry stored before
\* the change would still be fresh
C11_Witness ==
    /\ arg.fn = "get_all_stats"
    /\ response.status_code = 200
    /\ gc_client \in Tokens
    /\ computed_by = gc_client
    /\ calls # <<>>
    /\ now < StatsTTL

\* what the claim says of one request of the endpoint name with the
\* arguments args, cached for ttl seconds
CachedAsClaimed(name, args, ttl) ==
    (arg' = Request(name, args) /\ ~PureTick) =>
        LET k == CacheKey(name, args)
        IN  /\ \A other \in DOMAIN cache_store \ {k} :
                   /\ other \in DOMAIN cache_store'
                   /\ cache_store'[other] = cache_store[other]
            /\ IF k \in DOMAIN cache_store /\ now - cache_store[k].timestamp < ttl
               THEN /\ response' = cache_store[k].data
                    /\ calls' = <<>>
                    /\ cache_store' = cache_store
               ELSE /\ gc_client # "none" => calls' # <<>>
                    /\ response'.status_code = 200
                           => /\ k \in DOMAIN cache_store'
                              /\ cache_store'[k] = [data |-> response',
                                                    timestamp |-> now']
                    /\ response'.status_code # 200 => cache_store' = cache_store

\* C13: a GET of /api/stats/{id} less than 600 seconds after the result for
\* the same id was stored returns the stored result without a collaborator
\* call; otherwise (another id, or 600 seconds or more) the collaborator is
\* asked and a successful result replaces the entry, the entries of the
\* other keys staying as they are; the same with 3600 seconds for
\* /api/organizations.
C13_KeyedAndBoundedByTTL ==
    [][/\ \A o \in OrganizationIds : CachedAsClaimed("get_all_stats", <<o>>, 600)
       /\ CachedAsClaimed("get_organizations", <<>>, 3600)]_vars

\* C13 happens: the stats of one organization were served from an entry
\* stored earlier, with no collaborator call, while the other organization
\* has an entry of its own
C13_Witness ==
    /\ arg.fn = "get_all_stats"
    /\ calls = <<>>
    /\ CacheKey("get_all_stats", arg.args) \in DOMAIN cache_store
    /\ response = cache_store[CacheKey("get_all_stats", arg.args)].data
    /\ cache_store[CacheKey("get_all_stats", arg.args)].timestamp < now
    /\ \E o \in OrganizationIds :
           /\ <<o>> # arg.args
           /\ CacheKey("get_all_stats", <<o>>) \in DOMAIN cache_store
           /\ cache_store[CacheKey("get_all_stats", <<o>>)].data # response

\* the POST /api/token of this step failed: the client was not built, the
\* test call raised, or its payload carries the missing-authentication marker
TokenRejected ==
    /\ arg'.fn = "update_token"
    /\ ~PureTick
    /\ \/ calls' = <<>>
       \/ calls'[1].outcome.raised # "none"
       \/ check_auth_error(calls'[1].outcome.body)

\* C15: a failed POST /api/token leaves the installed client and the cache
\* as they were; it is answered 401 with auth_error when the test call
\* answered 401 or its payload carries the marker, and with an error other
\* than 401 otherwise.
C15_FailedUpdateChangesNothing ==
    [][TokenRejected =>
          /\ gc_client' = gc_client
          /\ cache_store' = cache_store
          /\ IF calls' # <<>> /\ IsAuthFailure(calls'[1].outcome)
             THEN response' = AuthErrorResult
             ELSE /\ response'.status_code >= 400
                  /\ response'.status_code # 401
                  /\ ~response'.auth_error]_vars

\* C15 happens: a token was rejected for authentication while another
\* client was installed and the cache held an entry
C15_Witness ==
    /\ arg.fn = "update_token"
    /\ response = AuthErrorResult
    /\ gc_client = "client"
    /\ cache_store # <<>>

----------------------------------------------------------------------------
(* The fields the tail of get_all_stats adds to the records *)

\* the records of the loop over the teams, before the tail adds to them
Collected == Replay(teams_data, Acc(<<>>, <<>>, <<>>, <<>>))

\* the two indices of the collected records
CollectedIndex ==
    calculate_scorer_strictness(Collected.batting, Collected.fielding,
                                Collected.raw)

\* the score of team t in an index, 0 when the index does not hold it
ScoreIn(index, t) == IF t \in DOMAIN index THEN index[t] ELSE 0

\* C12: in every successful stats response each batting record holds its
\* team's offensive score, each fielding and pitching record its team's
\* defensive score, 0 when the team is not in the index; the tail adds
\* scorer_strictness, normalized_batting_avg and normalized_slugging_pct to
\* a batting record, scorer_strictness and normalized_fielding_pct to a
\* fielding record and nothing but scorer_strictness to a pitching record.
C12_StrictnessOnEveryRecord ==
    Succeeded =>
        LET collected == Collected
            index     == calculate_scorer_strictness(collected.batting,
                                                     collected.fielding,
                                                     collected.raw)
            offensive == index.offensive
            defensive == index.defensive
        IN  /\ DOMAIN response.body.batting = DOMAIN collected.batting
            /\ DOMAIN response.body.pitching = DOMAIN collected.pitching
            /\ DOMAIN response.body.fielding = DOMAIN collected.fielding
            /\ \A i \in DOMAIN response.body.batting :
                   LET rec == response.body.batting[i]
                   IN  /\ DOMAIN rec = DOMAIN collected.batting[i]
                                       \cup {"scorer_strictness",
                                             "normalized_batting_avg",
                                             "normalized_slugging_pct"}
                       /\ rec.scorer_strictness = ScoreIn(offensive, rec.team_id)
            /\ \A i \in DOMAIN response.body.fielding :
                   LET rec == response.body.fielding[i]
                   IN  /\ DOMAIN rec = DOMAIN collected.fielding[i]
                                       \cup {"scorer_strictness",
                                             "normalized_fielding_pct"}
                       /\ rec.scorer_strictness = ScoreIn(defensive, rec.team_id)
            /\ \A i \in DOMAIN response.body.pitching :
                   LET rec == response.body.pitching[i]
                   IN  /\ DOMAIN rec = DOMAIN collected.pitching[i]
                                       \cup {"scorer_strictness"}
                       /\ rec.scorer_strictness = ScoreIn(defensive, rec.team_id)

\* C12 happens: a response holds a pitching record of a team whose offensive
\* and defensive scores differ, and a record of a team outside both indices
C12_Witness ==
    /\ Succeeded
    /\ \E i \in DOMAIN response.body.pitching :
           LET t == response.body.pitching[i].team_id
           IN  /\ t \in DOMAIN CollectedIndex.offensive
               /\ t \in DOMAIN CollectedIndex.defensive
               /\ CollectedIndex.offensive[t] # CollectedIndex.defensive[t]
               /\ response.body.pitching[i].scorer_strictness
                      = CollectedIndex.defensive[t]

\* C12 happens too for a team outside both indices: its records hold 0
C12_WitnessAbsent ==
    /\ Succeeded
    /\ \E i \in DOMAIN response.body.batting :
           /\ response.body.batting[i].team_id \notin DOMAIN CollectedIndex.offensive
           /\ response.body.batting[i].scorer_strictness = 0

----------------------------------------------------------------------------
(* The order of the scores within one index *)

\* what the claim says of one index: num[t] / den[t] is the rate of team t.
\* The rates are compared over their common denominator
FollowsRate(index, num, den) ==
    LET q      == DOMAIN index
        n      == Cardinality(q)
        L      == LCMOver(q, [t \in q |-> den[t]])
        scaled == [t \in q |-> num[t] * (L \div den[t])]
        total  == SumOver(q, scaled)
    IN  \A a \in q :
            /\ \A b \in q : scaled[a] > scaled[b] => index[a] >= index[b]
            /\ n * scaled[a] > total => index[a] >= 0
            /\ n * scaled[a] < total => index[a] <= 0
            /\ (\A b \in q : scaled[b] = scaled[a]) => index[a] = 0

====
